---- MODULE Spec2Model ----
\* Model of the task/course validation-and-persistence services of
\* uni-task-manager (internal/domain/services) over the SQLite repositories
\* (internal/adapters/secondary/sqlite) and the schema created in cmd/api.
\*
\* Time is counted in ticks; TicksPerSec ticks make one second.  A Go
\* time.Time is a tick count, the zero time.Time is tick 0.  A stored
\* timestamp column holds the RFC3339 text of a time, which has whole-second
\* resolution: it is represented by the number of whole seconds.
\*
\* created_at and updated_at are always UTC times.  A due date is whatever
\* time.Time the caller supplies, so it has a location as well: DueDate is
\* the instant and DueZone the UTC offset of its location, in seconds.  The
\* due_date column holds the RFC3339 text of that time, which is the local
\* date and time followed by the offset: due_date is the local second count
\* and due_zone the offset written after it.
EXTENDS Integers, Sequences, FiniteSets, TLC

\* ---------------------------------------------------------------- bounds
MaxTasks == 1        \* task rows ever inserted
MaxCourses == 1      \* course rows ever inserted
MaxTicks == 2        \* ticks the wall clock advances after start-up
TicksPerSec == 2     \* ticks per second (time.Time is finer than a second)

\* The wall clock at start-up: one tick into a second, long after the zero
\* time, so that the first tick of the clock begins a new second.
StartTime == 2 * TicksPerSec - 1
MaxTime == StartTime + MaxTicks

\* ---------------------------------------------------------------- errors
NoError == "nil"
ErrInvalidTaskPriority == "task priority must be between 1 and 5"
ErrInvalidDueDate == "due date must be in the future"
ErrTaskNotFound == "task not found"
ErrCourseNotFound == "course not found"
ErrEmptyName == "course name cannot be empty"
ErrConstraint == "constraint failed"

\* ---------------------------------------------------------------- entities
\* The priority scale, 1 (lowest) to 5 (highest).
MinPriority == 1

\* Mutant of MaxPriority: the scale widened by one.
MaxPriority_Widened == 5 + 1

MaxPriority == 5

TaskStatusPending == "pending"
TaskStatusInProgress == "in_progress"
TaskStatusCompleted == "completed"

ZeroTime == 0

IsZero(t) == t = ZeroTime

Before(t, u) == t < u

\* time.Time.Format(time.RFC3339): the text keeps whole seconds only.
Format(t) == t \div TicksPerSec

\* time.Parse(time.RFC3339, text): the instant at the start of that second.
Parse(s) == s * TicksPerSec

\* Format of a time in the location with UTC offset zone: the text shows the
\* local date and time, cut to whole seconds, and the offset.
FormatIn(t, zone) == (t \div TicksPerSec) + zone

\* Parse of a text with local second count s and UTC offset zone.
ParseIn(s, zone) == (s - zone) * TicksPerSec

\* ---------------------------------------------------------------- inputs
TaskIds == 1..(MaxTasks + 1)
CourseIds == 1..(MaxCourses + 1)
Titles == {"HW1", "HW2"}
Descriptions == {"d"}
Priorities == {-1, 0, 1, 5, 6}
Statuses == {"", TaskStatusPending, TaskStatusCompleted, "archived"}
DueDates == {ZeroTime} \cup (StartTime - 1)..(MaxTime + 1)
CourseRefs == {0, 1}
CallerStamps == {ZeroTime, MaxTime}
Names == {"", "CS101"}
Professors == {"Dr. Smith"}
Zones == {0, 2}

\* Every Task value a caller can hand to the service, within the bounds.
AllTaskInputs ==
    [ID : {0} \cup TaskIds, Title : Titles, Description : Descriptions,
     DueDate : DueDates, DueZone : Zones, Priority : Priorities, Status : Statuses,
     CourseID : CourseRefs, CreatedAt : CallerStamps, UpdatedAt : {ZeroTime}]

\* A typical request: a title, priority 1, due after the last tick of the
\* clock, status pending, no course, no timestamps.
BaseTask ==
    [ID |-> 0, Title |-> "HW1", Description |-> "d", DueDate |-> MaxTime + 1,
     DueZone |-> 0, Priority |-> 1, Status |-> TaskStatusPending, CourseID |-> 0,
     CreatedAt |-> ZeroTime, UpdatedAt |-> ZeroTime]

SameOutside(t, fields) ==
    \A f \in (DOMAIN BaseTask \ {"ID"}) \ fields : t[f] = BaseTask[f]

\* The task requests the behaviours of SpecTask are built from: those that
\* differ from the typical request in at most one of the fields the service
\* validates or defaults, or in the title.
TaskRequests ==
    {t \in AllTaskInputs :
        \E f \in {"Title", "DueDate", "Priority", "Status"} : SameOutside(t, {f})}

TaskInputs == {t \in TaskRequests : t.ID = 0}

TaskUpdates == {t \in TaskRequests : t.ID \in TaskIds}

\* The task requests of Spec, where the course service runs as well: those
\* that differ from the typical request in at most one of priority, course
\* reference and the created_at the caller supplies.
CoreRequests ==
    {t \in AllTaskInputs :
        \E f \in {"Priority", "CourseID", "CreatedAt"} : SameOutside(t, {f})}

CoreInputs == {t \in CoreRequests : t.ID = 0}

CoreUpdates == {t \in CoreRequests : t.ID \in TaskIds}

AllCourseInputs ==
    [ID : {0} \cup CourseIds, Name : Names, Professor : Professors,
     CreatedAt : CallerStamps, UpdatedAt : {ZeroTime}]

CourseInputs == {c \in AllCourseInputs : c.ID = 0 /\ c.CreatedAt = ZeroTime}

CourseUpdates == {c \in AllCourseInputs : c.ID \in CourseIds}

\* ---------------------------------------------------------------- state
VARIABLES
    tasks,      \* table tasks: id -> row
    courses,    \* table courses: id -> row
    taskSeq,    \* AUTOINCREMENT high-water mark of table tasks
    courseSeq,  \* AUTOINCREMENT high-water mark of table courses
    clock,      \* wall clock, in ticks
    last,       \* the service call that returned last: [op, err]
    ret,        \* entities returned by that call
    inflight    \* per caller, the call it has under way when calls overlap

vars == <<tasks, courses, taskSeq, courseSeq, clock, last, ret, inflight>>

\* ---------------------------------------------------------------- schema
\* CHECK constraints of table tasks.
\* Mutant of TasksCheck: the table has no CHECK on status.
TasksCheck_NoStatus(row) ==
    row.priority >= MinPriority /\ row.priority <= MaxPriority

TasksCheck(row) ==
    /\ row.priority >= MinPriority /\ row.priority <= MaxPriority
    /\ row.status \in {"pending", "in_progress", "completed"}

\* ---------------------------------------------------------------- task repository
ScanTask(row) ==
    [ID |-> row.id, Title |-> row.title, Description |-> row.description,
     DueDate |-> ParseIn(row.due_date, row.due_zone), DueZone |-> row.due_zone,
     Priority |-> row.priority,
     Status |-> row.status, CourseID |-> row.course_id,
     CreatedAt |-> Parse(row.created_at), UpdatedAt |-> Parse(row.updated_at)]

\* Returns <<>> for "nil, nil" (no row), <<task>> otherwise.
TaskRepository_GetByID(tbl, id) ==
    IF id \in DOMAIN tbl THEN <<ScanTask(tbl[id])>> ELSE <<>>

\* All the ways to put the elements of S in a row.
Perms(S) ==
    {f \in [1..Cardinality(S) -> S] : \A i, j \in DOMAIN f : i # j => f[i] # f[j]}

\* The place of an offset among the offsets written at the end of an RFC3339
\* text, compared as text: "+hh:mm" before "-hh:mm" before "Z".
ZoneTextKey(zone) ==
    IF zone > 0 THEN zone ELSE IF zone < 0 THEN 100000 - zone ELSE 200000

\* The due_date text of row r is not after that of row q, compared as text:
\* by the local date and time first, then by the offset.
DueTextLeq(r, q) ==
    \/ r.due_date < q.due_date
    \/ r.due_date = q.due_date /\ ZoneTextKey(r.due_zone) <= ZoneTextKey(q.due_zone)

\* SELECT ... FROM tasks ORDER BY due_date ASC: every listing of the rows in
\* ascending order of the due_date text (rows with equal text come in any
\* order), scanned.
TaskRepository_GetAll(tbl) ==
    {[i \in DOMAIN f |-> ScanTask(tbl[f[i]])] :
        f \in {g \in Perms(DOMAIN tbl) :
                  \A i, j \in DOMAIN g : i < j => DueTextLeq(tbl[g[i]], tbl[g[j]])}}

\* Mutant of TaskRepository_Create: the id column is not AUTOINCREMENT, the
\* row gets the largest id in the table plus one.
TaskRepository_Create_ReusesId(tbl, seq, task) ==
    LET id == IF DOMAIN tbl = {} THEN 1
              ELSE (CHOOSE m \in DOMAIN tbl : \A i \in DOMAIN tbl : i <= m) + 1
        row == [id |-> id, title |-> task.Title, description |-> task.Description,
                due_date |-> FormatIn(task.DueDate, task.DueZone),
                due_zone |-> task.DueZone, priority |-> task.Priority,
                status |-> task.Status, course_id |-> task.CourseID,
                created_at |-> Format(task.CreatedAt),
                updated_at |-> Format(task.UpdatedAt)]
    IN IF TasksCheck(row)
       THEN [err |-> NoError, seq |-> IF id > seq THEN id ELSE seq,
             tbl |-> [i \in DOMAIN tbl \cup {id} |-> IF i = id THEN row ELSE tbl[i]]]
       ELSE [err |-> ErrConstraint, seq |-> seq, tbl |-> tbl]

\* INSERT INTO tasks ...; the row gets the next AUTOINCREMENT id.
TaskRepository_Create(tbl, seq, task) ==
    LET id == seq + 1
        row == [id |-> id, title |-> task.Title, description |-> task.Description,
                due_date |-> FormatIn(task.DueDate, task.DueZone),
                due_zone |-> task.DueZone, priority |-> task.Priority,
                status |-> task.Status, course_id |-> task.CourseID,
                created_at |-> Format(task.CreatedAt),
                updated_at |-> Format(task.UpdatedAt)]
    IN IF TasksCheck(row)
       THEN [err |-> NoError, seq |-> id,
             tbl |-> [i \in DOMAIN tbl \cup {id} |-> IF i = id THEN row ELSE tbl[i]]]
       ELSE [err |-> ErrConstraint, seq |-> seq, tbl |-> tbl]

\* Mutant of TaskRepository_Update: title is not in the SET list.
TaskRepository_Update_KeepsTitle(tbl, task) ==
    IF task.ID \notin DOMAIN tbl
    THEN [err |-> NoError, tbl |-> tbl]
    ELSE LET row == [tbl[task.ID] EXCEPT
                        !.description = task.Description,
                        !.due_date = FormatIn(task.DueDate, task.DueZone),
                        !.due_zone = task.DueZone,
                        !.priority = task.Priority, !.status = task.Status,
                        !.course_id = task.CourseID,
                        !.updated_at = Format(task.UpdatedAt)]
         IN IF TasksCheck(row)
            THEN [err |-> NoError, tbl |-> [tbl EXCEPT ![task.ID] = row]]
            ELSE [err |-> ErrConstraint, tbl |-> tbl]

\* Mutant of TaskRepository_Update: created_at is in the SET list.
TaskRepository_Update_SetsCreatedAt(tbl, task) ==
    IF task.ID \notin DOMAIN tbl
    THEN [err |-> NoError, tbl |-> tbl]
    ELSE LET row == [tbl[task.ID] EXCEPT
                        !.title = task.Title, !.description = task.Description,
                        !.due_date = FormatIn(task.DueDate, task.DueZone),
                        !.due_zone = task.DueZone,
                        !.priority = task.Priority, !.status = task.Status,
                        !.course_id = task.CourseID,
                        !.created_at = Format(task.UpdatedAt),
                        !.updated_at = Format(task.UpdatedAt)]
         IN IF TasksCheck(row)
            THEN [err |-> NoError, tbl |-> [tbl EXCEPT ![task.ID] = row]]
            ELSE [err |-> ErrConstraint, tbl |-> tbl]

\* UPDATE tasks SET ... WHERE id = ?; created_at is not in the SET list, and
\* a statement that matches no row is not an error.
TaskRepository_Update(tbl, task) ==
    IF task.ID \notin DOMAIN tbl
    THEN [err |-> NoError, tbl |-> tbl]
    ELSE LET row == [tbl[task.ID] EXCEPT
                        !.title = task.Title, !.description = task.Description,
                        !.due_date = FormatIn(task.DueDate, task.DueZone),
                        !.due_zone = task.DueZone,
                        !.priority = task.Priority, !.status = task.Status,
                        !.course_id = task.CourseID,
                        !.updated_at = Format(task.UpdatedAt)]
         IN IF TasksCheck(row)
            THEN [err |-> NoError, tbl |-> [tbl EXCEPT ![task.ID] = row]]
            ELSE [err |-> ErrConstraint, tbl |-> tbl]

\* Mutant of TaskRepository_Delete: the statement has no WHERE clause.
TaskRepository_Delete_NoWhere(tbl, id) == [err |-> NoError, tbl |-> <<>>]

\* Mutant of TaskRepository_Delete: the row stays.
TaskRepository_Delete_KeepsRow(tbl, id) ==
    [err |-> NoError, tbl |-> tbl]

\* DELETE FROM tasks WHERE id = ?
TaskRepository_Delete(tbl, id) ==
    [err |-> NoError, tbl |-> [i \in DOMAIN tbl \ {id} |-> tbl[i]]]

\* ---------------------------------------------------------------- course repository
ScanCourse(row) ==
    [ID |-> row.id, Name |-> row.name, Professor |-> row.professor,
     CreatedAt |-> Parse(row.created_at), UpdatedAt |-> Parse(row.updated_at)]

\* The course names of the model in ascending order of their bytes, the
\* order of SQLite's default collation.
NamesAscending == <<"", "Algorithms", "CS101">>

NameRank(name) == CHOOSE i \in DOMAIN NamesAscending : NamesAscending[i] = name

\* SELECT ... FROM courses ORDER BY name ASC
CourseRepository_GetAll(tbl) ==
    {[i \in DOMAIN f |-> ScanCourse(tbl[f[i]])] :
        f \in {g \in Perms(DOMAIN tbl) :
                  \A i, j \in DOMAIN g :
                      i < j => NameRank(tbl[g[i]].name) <= NameRank(tbl[g[j]].name)}}

CourseRepository_GetByID(tbl, id) ==
    IF id \in DOMAIN tbl THEN <<ScanCourse(tbl[id])>> ELSE <<>>

CourseRepository_Create(tbl, seq, course) ==
    LET id == seq + 1
        row == [id |-> id, name |-> course.Name, professor |-> course.Professor,
                created_at |-> Format(course.CreatedAt),
                updated_at |-> Format(course.UpdatedAt)]
    IN [err |-> NoError, seq |-> id,
        tbl |-> [i \in DOMAIN tbl \cup {id} |-> IF i = id THEN row ELSE tbl[i]]]

CourseRepository_Update(tbl, course) ==
    IF course.ID \notin DOMAIN tbl
    THEN [err |-> NoError, tbl |-> tbl]
    ELSE [err |-> NoError,
          tbl |-> [tbl EXCEPT ![course.ID] =
                     [@ EXCEPT !.name = course.Name, !.professor = course.Professor,
                               !.updated_at = Format(course.UpdatedAt)]]]

CourseRepository_Delete(tbl, id) ==
    [err |-> NoError, tbl |-> [i \in DOMAIN tbl \ {id} |-> tbl[i]]]

\* ---------------------------------------------------------------- task service
\* Every service outcome carries calls, the storage calls the operation
\* issued, in order.
\* The course lookup CreateTask and UpdateTask make for a non-zero course_id;
\* its result is discarded.
CourseLookup(task) ==
    IF task.CourseID # 0 THEN <<"courses.GetByID">> ELSE <<>>

\* Mutant of validateTask: the lower end of the priority scale is not checked.
validateTask_NoLowerBound(task, now) ==
    IF task.Priority > MaxPriority THEN ErrInvalidTaskPriority
    ELSE IF ~IsZero(task.DueDate) /\ Before(task.DueDate, now) THEN ErrInvalidDueDate
    ELSE NoError

\* Mutant of validateTask: the due date is compared the wrong way round.
validateTask_DueSwapped(task, now) ==
    IF task.Priority < MinPriority \/ task.Priority > MaxPriority
    THEN ErrInvalidTaskPriority
    ELSE IF ~IsZero(task.DueDate) /\ Before(now, task.DueDate) THEN ErrInvalidDueDate
    ELSE NoError

\* Mutant of validateTask: the due date is not checked.
validateTask_NoDueCheck(task, now) ==
    IF task.Priority < MinPriority \/ task.Priority > MaxPriority
    THEN ErrInvalidTaskPriority
    ELSE NoError

\* Mutant of validateTask: the due date is checked before the priority.
validateTask_DueFirst(task, now) ==
    IF ~IsZero(task.DueDate) /\ Before(task.DueDate, now) THEN ErrInvalidDueDate
    ELSE IF task.Priority < MinPriority \/ task.Priority > MaxPriority
    THEN ErrInvalidTaskPriority
    ELSE NoError

validateTask(task, now) ==
    IF task.Priority < MinPriority \/ task.Priority > MaxPriority
    THEN ErrInvalidTaskPriority
    ELSE IF ~IsZero(task.DueDate) /\ Before(task.DueDate, now) THEN ErrInvalidDueDate
    ELSE NoError

\* Mutant of TaskService_CreateTask: the default status replaces a status
\* the caller supplied instead of an empty one.
TaskService_CreateTask_DefaultInverted(tbl, ctbl, seq, now, task) ==
    LET verr == validateTask(task, now)
        stamped == [task EXCEPT !.CreatedAt = now, !.UpdatedAt = now,
                                !.Status = IF task.Status # ""
                                           THEN TaskStatusPending ELSE task.Status]
        res == TaskRepository_Create(tbl, seq, stamped)
    IN IF verr # NoError
       THEN [err |-> verr, tbl |-> tbl, seq |-> seq, calls |-> <<>>]
       ELSE [err |-> res.err, tbl |-> res.tbl, seq |-> res.seq,
             calls |-> CourseLookup(task) \o <<"tasks.Create">>]

\* The outcome of TaskService.CreateTask(task) with the wall clock at now:
\* the error returned and the tables afterwards.
TaskService_CreateTask(tbl, ctbl, seq, now, task) ==
    LET verr == validateTask(task, now)
        stamped == [task EXCEPT !.CreatedAt = now, !.UpdatedAt = now,
                                !.Status = IF task.Status = ""
                                           THEN TaskStatusPending ELSE task.Status]
        res == TaskRepository_Create(tbl, seq, stamped)
    IN IF verr # NoError
       THEN [err |-> verr, tbl |-> tbl, seq |-> seq, calls |-> <<>>]
       ELSE [err |-> res.err, tbl |-> res.tbl, seq |-> res.seq,
             calls |-> CourseLookup(task) \o <<"tasks.Create">>]

\* Mutant of TaskService_UpdateTask: the task is not validated.
TaskService_UpdateTask_NoValidation(tbl, ctbl, now, task) ==
    LET existing == TaskRepository_GetByID(tbl, task.ID)
        stamped == [task EXCEPT !.CreatedAt = existing[1].CreatedAt,
                                !.UpdatedAt = now]
        res == TaskRepository_Update(tbl, stamped)
    IN IF existing = <<>>
       THEN [err |-> ErrTaskNotFound, tbl |-> tbl, calls |-> <<"tasks.GetByID">>]
       ELSE [err |-> res.err, tbl |-> res.tbl,
             calls |-> <<"tasks.GetByID">> \o CourseLookup(task) \o <<"tasks.Update">>]

\* Mutant of TaskService_UpdateTask: the row is written before the task is
\* looked up.
TaskService_UpdateTask_WriteFirst(tbl, ctbl, now, task) ==
    LET verr == validateTask(task, now)
        existing == TaskRepository_GetByID(tbl, task.ID)
        res == TaskRepository_Update(tbl, [task EXCEPT !.UpdatedAt = now])
    IN IF verr # NoError THEN [err |-> verr, tbl |-> tbl, calls |-> <<>>]
       ELSE IF existing = <<>>
       THEN [err |-> ErrTaskNotFound, tbl |-> res.tbl,
             calls |-> <<"tasks.Update", "tasks.GetByID">>]
       ELSE [err |-> res.err, tbl |-> res.tbl,
             calls |-> <<"tasks.Update", "tasks.GetByID">> \o CourseLookup(task)]

\* Mutant of TaskService_UpdateTask: updated_at is not refreshed.
TaskService_UpdateTask_NoStamp(tbl, ctbl, now, task) ==
    LET verr == validateTask(task, now)
        existing == TaskRepository_GetByID(tbl, task.ID)
        stamped == [task EXCEPT !.CreatedAt = existing[1].CreatedAt]
        res == TaskRepository_Update(tbl, stamped)
    IN IF verr # NoError THEN [err |-> verr, tbl |-> tbl, calls |-> <<>>]
       ELSE IF existing = <<>>
       THEN [err |-> ErrTaskNotFound, tbl |-> tbl, calls |-> <<"tasks.GetByID">>]
       ELSE [err |-> res.err, tbl |-> res.tbl,
             calls |-> <<"tasks.GetByID">> \o CourseLookup(task) \o <<"tasks.Update">>]

\* The outcome of TaskService.UpdateTask(task) with the wall clock at now.
TaskService_UpdateTask(tbl, ctbl, now, task) ==
    LET verr == validateTask(task, now)
        existing == TaskRepository_GetByID(tbl, task.ID)
        stamped == [task EXCEPT !.CreatedAt = existing[1].CreatedAt,
                                !.UpdatedAt = now]
        res == TaskRepository_Update(tbl, stamped)
    IN IF verr # NoError THEN [err |-> verr, tbl |-> tbl, calls |-> <<>>]
       ELSE IF existing = <<>>
       THEN [err |-> ErrTaskNotFound, tbl |-> tbl, calls |-> <<"tasks.GetByID">>]
       ELSE [err |-> res.err, tbl |-> res.tbl,
             calls |-> <<"tasks.GetByID">> \o CourseLookup(task) \o <<"tasks.Update">>]

\* The listings GetAllTasks may return.
TaskService_GetAllTasks(tbl) == TaskRepository_GetAll(tbl)

TaskService_GetTask(tbl, id) ==
    LET task == TaskRepository_GetByID(tbl, id)
    IN IF task = <<>>
       THEN [err |-> ErrTaskNotFound, ret |-> <<>>, calls |-> <<"tasks.GetByID">>]
       ELSE [err |-> NoError, ret |-> task, calls |-> <<"tasks.GetByID">>]

\* Mutant of TaskService_DeleteTask: the task is not looked up first.
TaskService_DeleteTask_NoLookup(tbl, id) ==
    [err |-> TaskRepository_Delete(tbl, id).err,
     tbl |-> TaskRepository_Delete(tbl, id).tbl, calls |-> <<"tasks.Delete">>]

TaskService_DeleteTask(tbl, id) ==
    LET existing == TaskRepository_GetByID(tbl, id)
        res == TaskRepository_Delete(tbl, id)
    IN IF existing = <<>>
       THEN [err |-> ErrTaskNotFound, tbl |-> tbl, calls |-> <<"tasks.GetByID">>]
       ELSE [err |-> res.err, tbl |-> res.tbl,
             calls |-> <<"tasks.GetByID", "tasks.Delete">>]

\* ---------------------------------------------------------------- course service
\* Mutant of validateCourse: every course passes.
validateCourse_AcceptsAll(course) == NoError

validateCourse(course) ==
    IF course.Name = "" THEN ErrEmptyName ELSE NoError

\* Mutant of CourseService_CreateCourse: only created_at is stamped.
CourseService_CreateCourse_NoUpdatedAt(ctbl, seq, now, course) ==
    LET verr == validateCourse(course)
        stamped == [course EXCEPT !.CreatedAt = now]
        res == CourseRepository_Create(ctbl, seq, stamped)
    IN IF verr # NoError
       THEN [err |-> verr, tbl |-> ctbl, seq |-> seq, calls |-> <<>>]
       ELSE [err |-> res.err, tbl |-> res.tbl, seq |-> res.seq,
             calls |-> <<"courses.Create">>]

CourseService_CreateCourse(ctbl, seq, now, course) ==
    LET verr == validateCourse(course)
        stamped == [course EXCEPT !.CreatedAt = now, !.UpdatedAt = now]
        res == CourseRepository_Create(ctbl, seq, stamped)
    IN IF verr # NoError
       THEN [err |-> verr, tbl |-> ctbl, seq |-> seq, calls |-> <<>>]
       ELSE [err |-> res.err, tbl |-> res.tbl, seq |-> res.seq,
             calls |-> <<"courses.Create">>]

\* Mutant of CourseService_UpdateCourse: updated_at is not refreshed.
CourseService_UpdateCourse_NoStamp(ctbl, now, course) ==
    LET verr == validateCourse(course)
        existing == CourseRepository_GetByID(ctbl, course.ID)
        stamped == [course EXCEPT !.CreatedAt = existing[1].CreatedAt]
        res == CourseRepository_Update(ctbl, stamped)
    IN IF verr # NoError THEN [err |-> verr, tbl |-> ctbl, calls |-> <<>>]
       ELSE IF existing = <<>>
       THEN [err |-> ErrCourseNotFound, tbl |-> ctbl, calls |-> <<"courses.GetByID">>]
       ELSE [err |-> res.err, tbl |-> res.tbl,
             calls |-> <<"courses.GetByID", "courses.Update">>]

CourseService_UpdateCourse(ctbl, now, course) ==
    LET verr == validateCourse(course)
        existing == CourseRepository_GetByID(ctbl, course.ID)
        stamped == [course EXCEPT !.CreatedAt = existing[1].CreatedAt,
                                  !.UpdatedAt = now]
        res == CourseRepository_Update(ctbl, stamped)
    IN IF verr # NoError THEN [err |-> verr, tbl |-> ctbl, calls |-> <<>>]
       ELSE IF existing = <<>>
       THEN [err |-> ErrCourseNotFound, tbl |-> ctbl, calls |-> <<"courses.GetByID">>]
       ELSE [err |-> res.err, tbl |-> res.tbl,
             calls |-> <<"courses.GetByID", "courses.Update">>]

\* The listings GetAllCourses may return.
CourseService_GetAllCourses(ctbl) == CourseRepository_GetAll(ctbl)

CourseService_GetCourse(ctbl, id) ==
    LET course == CourseRepository_GetByID(ctbl, id)
    IN IF course = <<>>
       THEN [err |-> ErrCourseNotFound, ret |-> <<>>, calls |-> <<"courses.GetByID">>]
       ELSE [err |-> NoError, ret |-> course, calls |-> <<"courses.GetByID">>]

CourseService_DeleteCourse(ctbl, id) ==
    LET existing == CourseRepository_GetByID(ctbl, id)
        res == CourseRepository_Delete(ctbl, id)
    IN IF existing = <<>>
       THEN [err |-> ErrCourseNotFound, tbl |-> ctbl, calls |-> <<"courses.GetByID">>]
       ELSE [err |-> res.err, tbl |-> res.tbl,
             calls |-> <<"courses.GetByID", "courses.Delete">>]

\* ---------------------------------------------------------------- REST API
StatusOK == 200
StatusCreated == 201
StatusNoContent == 204
StatusBadRequest == 400
StatusNotFound == 404
StatusInternalServerError == 500

\* The Task a request body is decoded into: every field has its zero value.
ZeroTask ==
    [ID |-> 0, Title |-> "", Description |-> "", DueDate |-> ZeroTime,
     DueZone |-> 0, Priority |-> 0, Status |-> "", CourseID |-> 0,
     CreatedAt |-> ZeroTime, UpdatedAt |-> ZeroTime]

\* A JSON object is a function from its keys to their values; the value of
\* a time is a record of the instant and the offset it is written with.  A
\* body that is not a JSON object is the object with the one key below.
MalformedBody == [malformed |-> TRUE]

\* A key or field name with its letters in lower case.
FoldCase ==
    [title |-> "title", Title |-> "title",
     description |-> "description", Description |-> "description",
     due_date |-> "due_date", DueDate |-> "duedate",
     priority |-> "priority", Priority |-> "priority",
     status |-> "status", Status |-> "status",
     course_id |-> "course_id", CourseID |-> "courseid"]

\* json.Decoder.Decode into a models.Task: the struct has no json tags, so a
\* key sets the field whose name equals the key ignoring case, and a key
\* that matches no field is skipped.  A body has at most one key per field.
FieldValue(body, field, zero) ==
    LET keys == {k \in DOMAIN body : FoldCase[k] = FoldCase[field]}
    IN IF keys = {} THEN zero ELSE body[CHOOSE k \in keys : TRUE]

DecodeTask(body) ==
    LET due == FieldValue(body, "DueDate", [at |-> ZeroTime, zone |-> 0])
    IN [ZeroTask EXCEPT
          !.Title = FieldValue(body, "Title", ""),
          !.Description = FieldValue(body, "Description", ""),
          !.DueDate = due.at, !.DueZone = due.zone,
          !.Priority = FieldValue(body, "Priority", 0),
          !.Status = FieldValue(body, "Status", ""),
          !.CourseID = FieldValue(body, "CourseID", 0)]

\* The route admits digit strings only; one too long for an int64, standing
\* for which is OutOfRangeId, makes strconv.ParseInt fail.
OutOfRangeId == -1

\* A handler outcome: the response status, the entities in the response
\* body, the error the service returned and the tables afterwards.
Handler_APIGetTask(tbl, id) ==
    LET r == TaskService_GetTask(tbl, id)
    IN IF id = OutOfRangeId
       THEN [status |-> StatusBadRequest, body |-> <<>>, err |-> NoError]
       ELSE IF r.err # NoError
       THEN [status |-> StatusInternalServerError, body |-> <<>>, err |-> r.err]
       ELSE IF r.ret = <<>>
       THEN [status |-> StatusNotFound, body |-> <<>>, err |-> r.err]
       ELSE [status |-> StatusOK, body |-> r.ret, err |-> r.err]

\* The response carries the decoded task as the service and the repository
\* left it: with the default status, the time stamps and the new id.
Handler_APICreateTask(tbl, ctbl, seq, now, body) ==
    LET task == DecodeTask(body)
        r == TaskService_CreateTask(tbl, ctbl, seq, now, task)
        created == [task EXCEPT
                      !.ID = r.seq, !.CreatedAt = now, !.UpdatedAt = now,
                      !.Status = IF @ = "" THEN TaskStatusPending ELSE @]
    IN IF body = MalformedBody
       THEN [status |-> StatusBadRequest, body |-> <<>>, err |-> NoError,
             tbl |-> tbl, seq |-> seq]
       ELSE IF r.err # NoError
       THEN [status |-> StatusInternalServerError, body |-> <<>>, err |-> r.err,
             tbl |-> r.tbl, seq |-> r.seq]
       ELSE [status |-> StatusCreated, body |-> <<created>>,
             err |-> r.err, tbl |-> r.tbl, seq |-> r.seq]

Handler_APIUpdateTask(tbl, ctbl, now, id, body) ==
    LET r == TaskService_UpdateTask(tbl, ctbl, now, [DecodeTask(body) EXCEPT !.ID = id])
    IN IF id = OutOfRangeId \/ body = MalformedBody
       THEN [status |-> StatusBadRequest, err |-> NoError, tbl |-> tbl]
       ELSE IF r.err # NoError
       THEN [status |-> StatusInternalServerError, err |-> r.err, tbl |-> r.tbl]
       ELSE [status |-> StatusOK, err |-> r.err, tbl |-> r.tbl]

Handler_APIDeleteTask(tbl, id) ==
    LET r == TaskService_DeleteTask(tbl, id)
    IN IF id = OutOfRangeId
       THEN [status |-> StatusBadRequest, err |-> NoError, tbl |-> tbl]
       ELSE IF r.err # NoError
       THEN [status |-> StatusInternalServerError, err |-> r.err, tbl |-> r.tbl]
       ELSE [status |-> StatusNoContent, err |-> r.err, tbl |-> r.tbl]

\* ---------------------------------------------------------------- legacy (flat) implementation
\* The earlier version of the application: handlers that parse the request
\* and call the database layer directly, with no service in between, over a
\* tasks table without CHECK constraints.
StatusSeeOther == 303

ErrNoRows == "sql: no rows in result set"

\* strconv.Atoi and strconv.ParseInt on the texts a form field may hold: a
\* text outside the domain does not parse.
Atoi == ("-1" :> -1) @@ ("0" :> 0) @@ ("1" :> 1) @@ ("5" :> 5) @@ ("6" :> 6)

\* time.Parse("2006-01-02T15:04", text): the one text of that layout stands
\* for a time after the last tick of the clock, in UTC.
ParseFormDue == ("2030-01-01T10:00" :> MaxTime + 1)

\* Mutant of LegacyPriority: the parsed number is used as it is.
LegacyPriority_NoDefault(text) ==
    IF text \notin DOMAIN Atoi THEN 0 ELSE Atoi[text]

\* The priority the form handlers take from the form field.
LegacyPriority(text) ==
    IF text \notin DOMAIN Atoi \/ Atoi[text] < 1 \/ Atoi[text] > 5
    THEN 3 ELSE Atoi[text]

\* DB.GetTask: <<task>>, or <<>> for the error of a query without rows.
Legacy_DB_GetTask(tbl, id) ==
    IF id \in DOMAIN tbl THEN <<ScanTask(tbl[id])>> ELSE <<>>

\* DB.CreateTask: stamps the task and inserts it.
Legacy_DB_CreateTask(tbl, seq, now, task) ==
    LET id == seq + 1
        row == [id |-> id, title |-> task.Title, description |-> task.Description,
                due_date |-> FormatIn(task.DueDate, task.DueZone),
                due_zone |-> task.DueZone, priority |-> task.Priority,
                status |-> task.Status, course_id |-> task.CourseID,
                created_at |-> Format(now), updated_at |-> Format(now)]
    IN [err |-> NoError, seq |-> id,
        tbl |-> [i \in DOMAIN tbl \cup {id} |-> IF i = id THEN row ELSE tbl[i]]]

\* DB.UpdateTask: stamps updated_at and updates the row, if there is one.
Legacy_DB_UpdateTask(tbl, now, task) ==
    IF task.ID \notin DOMAIN tbl
    THEN [err |-> NoError, tbl |-> tbl]
    ELSE [err |-> NoError,
          tbl |-> [tbl EXCEPT ![task.ID] =
                     [@ EXCEPT !.title = task.Title, !.description = task.Description,
                               !.due_date = FormatIn(task.DueDate, task.DueZone),
                               !.due_zone = task.DueZone,
                               !.priority = task.Priority, !.status = task.Status,
                               !.course_id = task.CourseID,
                               !.updated_at = Format(now)]]]

\* The Task the form handlers build from the form.
LegacyFormTask(form) ==
    [ZeroTask EXCEPT
        !.Title = form.title, !.Description = form.description,
        !.DueDate = ParseFormDue[form.due_date],
        !.Priority = LegacyPriority(form.priority),
        !.Status = form.status,
        !.CourseID = IF form.course_id \in DOMAIN Atoi
                     THEN Atoi[form.course_id] ELSE 0]

\* Handler.CreateTask of the legacy handlers (POST /tasks).
Legacy_Handler_CreateTask(tbl, seq, now, form) ==
    LET task == [LegacyFormTask(form) EXCEPT !.Status = "pending"]
        r == Legacy_DB_CreateTask(tbl, seq, now, task)
    IN IF form.due_date \notin DOMAIN ParseFormDue
       THEN [status |-> StatusBadRequest, err |-> NoError, tbl |-> tbl, seq |-> seq]
       ELSE IF r.err # NoError
       THEN [status |-> StatusInternalServerError, err |-> r.err, tbl |-> r.tbl,
             seq |-> r.seq]
       ELSE [status |-> StatusSeeOther, err |-> r.err, tbl |-> r.tbl, seq |-> r.seq]

\* Handler.UpdateTask of the legacy handlers (POST /tasks/{id}).
Legacy_Handler_UpdateTask(tbl, now, id, form) ==
    LET existing == Legacy_DB_GetTask(tbl, id)
        task == [LegacyFormTask(form) EXCEPT
                    !.ID = id, !.CreatedAt = existing[1].CreatedAt]
        r == Legacy_DB_UpdateTask(tbl, now, task)
    IN IF id = OutOfRangeId
       THEN [status |-> StatusBadRequest, err |-> NoError, tbl |-> tbl]
       ELSE IF existing = <<>>
       THEN [status |-> StatusNotFound, err |-> ErrNoRows, tbl |-> tbl]
       ELSE IF form.due_date \notin DOMAIN ParseFormDue
       THEN [status |-> StatusBadRequest, err |-> NoError, tbl |-> tbl]
       ELSE IF r.err # NoError
       THEN [status |-> StatusInternalServerError, err |-> r.err, tbl |-> r.tbl]
       ELSE [status |-> StatusSeeOther, err |-> r.err, tbl |-> r.tbl]

\* json.Decoder.Decode into the legacy models.Task, whose fields carry json
\* tags: a key sets the field whose tag equals the key ignoring case.
DecodeLegacyTask(body) ==
    LET due == FieldValue(body, "due_date", [at |-> ZeroTime, zone |-> 0])
    IN [ZeroTask EXCEPT
          !.Title = FieldValue(body, "title", ""),
          !.Description = FieldValue(body, "description", ""),
          !.DueDate = due.at, !.DueZone = due.zone,
          !.Priority = FieldValue(body, "priority", 0),
          !.Status = FieldValue(body, "status", ""),
          !.CourseID = FieldValue(body, "course_id", 0)]

\* Handler.APICreateTask of the legacy handlers (POST /api/tasks).
Legacy_Handler_APICreateTask(tbl, seq, now, body) ==
    LET r == Legacy_DB_CreateTask(tbl, seq, now, DecodeLegacyTask(body))
    IN IF body = MalformedBody
       THEN [status |-> StatusBadRequest, err |-> NoError, tbl |-> tbl, seq |-> seq]
       ELSE IF r.err # NoError
       THEN [status |-> StatusInternalServerError, err |-> r.err, tbl |-> r.tbl,
             seq |-> r.seq]
       ELSE [status |-> StatusCreated, err |-> r.err, tbl |-> r.tbl, seq |-> r.seq]

\* ---------------------------------------------------------------- overlapping calls
\* Requests are handled independently of each other, each in a goroutine of
\* its own; the service takes no lock and opens no transaction, so the
\* storage calls and clock readings of two calls interleave freely.  A call
\* under way is [op, pc, task, err]: pc is the step it takes next ("done"
\* when it has returned), task the Task it works on, err what it returned.
\* A caller that has made no call yet has op "idle".
Callers == {1, 2}

\* ---------------------------------------------------------------- actions
Init ==
    /\ tasks = <<>>
    /\ courses = <<>>
    /\ taskSeq = 0
    /\ courseSeq = 0
    /\ clock = StartTime
    /\ last = [op |-> "start", err |-> NoError]
    /\ ret = <<>>
    /\ inflight = [p \in Callers |->
                      [op |-> "idle", pc |-> "done", task |-> ZeroTask, err |-> NoError]]

Tick ==
    /\ clock < MaxTime
    /\ clock' = clock + 1
    /\ UNCHANGED <<tasks, courses, taskSeq, courseSeq, last, ret, inflight>>

\* CreateTask while no more than limit task rows have ever been inserted.
CreateTaskWithin(limit, task) ==
    LET r == TaskService_CreateTask(tasks, courses, taskSeq, clock, task)
    IN /\ r.seq <= limit
       /\ tasks' = r.tbl
       /\ taskSeq' = r.seq
       /\ last' = [op |-> "CreateTask", err |-> r.err]
       /\ ret' = <<>>
       /\ UNCHANGED <<courses, courseSeq, clock, inflight>>

CreateTask(task) == CreateTaskWithin(MaxTasks, task)

UpdateTask(task) ==
    LET r == TaskService_UpdateTask(tasks, courses, clock, task)
    IN /\ tasks' = r.tbl
       /\ last' = [op |-> "UpdateTask", err |-> r.err]
       /\ ret' = <<>>
       /\ UNCHANGED <<courses, taskSeq, courseSeq, clock, inflight>>

GetTask(id) ==
    LET r == TaskService_GetTask(tasks, id)
    IN /\ last' = [op |-> "GetTask", err |-> r.err]
       /\ ret' = r.ret
       /\ UNCHANGED <<tasks, courses, taskSeq, courseSeq, clock, inflight>>

DeleteTask(id) ==
    LET r == TaskService_DeleteTask(tasks, id)
    IN /\ tasks' = r.tbl
       /\ last' = [op |-> "DeleteTask", err |-> r.err]
       /\ ret' = <<>>
       /\ UNCHANGED <<courses, taskSeq, courseSeq, clock, inflight>>

\* CreateCourse while no more than limit course rows have ever been inserted.
CreateCourseWithin(limit, course) ==
    LET r == CourseService_CreateCourse(courses, courseSeq, clock, course)
    IN /\ r.seq <= limit
       /\ courses' = r.tbl
       /\ courseSeq' = r.seq
       /\ last' = [op |-> "CreateCourse", err |-> r.err]
       /\ ret' = <<>>
       /\ UNCHANGED <<tasks, taskSeq, clock, inflight>>

CreateCourse(course) == CreateCourseWithin(MaxCourses, course)

GetAllTasks ==
    \E list \in TaskService_GetAllTasks(tasks) :
        /\ last' = [op |-> "GetAllTasks", err |-> NoError]
        /\ ret' = list
        /\ UNCHANGED <<tasks, courses, taskSeq, courseSeq, clock, inflight>>

GetAllCourses ==
    \E list \in CourseService_GetAllCourses(courses) :
        /\ last' = [op |-> "GetAllCourses", err |-> NoError]
        /\ ret' = list
        /\ UNCHANGED <<tasks, courses, taskSeq, courseSeq, clock, inflight>>

UpdateCourse(course) ==
    LET r == CourseService_UpdateCourse(courses, clock, course)
    IN /\ courses' = r.tbl
       /\ last' = [op |-> "UpdateCourse", err |-> r.err]
       /\ ret' = <<>>
       /\ UNCHANGED <<tasks, taskSeq, courseSeq, clock, inflight>>

GetCourse(id) ==
    LET r == CourseService_GetCourse(courses, id)
    IN /\ last' = [op |-> "GetCourse", err |-> r.err]
       /\ ret' = r.ret
       /\ UNCHANGED <<tasks, courses, taskSeq, courseSeq, clock, inflight>>

\* Mutant of DeleteCourse: the delete cascades to the tasks of the course.
DeleteCourse_Cascade(id) ==
    LET r == CourseService_DeleteCourse(courses, id)
    IN /\ courses' = r.tbl
       /\ tasks' = [t \in {u \in DOMAIN tasks : tasks[u].course_id \notin
                                DOMAIN courses \ DOMAIN r.tbl} |-> tasks[t]]
       /\ last' = [op |-> "DeleteCourse", err |-> r.err]
       /\ ret' = <<>>
       /\ UNCHANGED <<taskSeq, courseSeq, clock, inflight>>

\* The tasks table declares FOREIGN KEY (course_id) REFERENCES courses(id)
\* without ON DELETE action, and the connection does not turn foreign keys
\* on: deleting a course leaves the tasks table alone.
DeleteCourse(id) ==
    LET r == CourseService_DeleteCourse(courses, id)
    IN /\ courses' = r.tbl
       /\ last' = [op |-> "DeleteCourse", err |-> r.err]
       /\ ret' = <<>>
       /\ UNCHANGED <<tasks, taskSeq, courseSeq, clock, inflight>>

APIGetTask(id) ==
    LET r == Handler_APIGetTask(tasks, id)
    IN /\ last' = [op |-> "APIGetTask", err |-> r.err]
       /\ ret' = <<[status |-> r.status, body |-> r.body]>>
       /\ UNCHANGED <<tasks, courses, taskSeq, courseSeq, clock, inflight>>

APICreateTask(body) ==
    LET r == Handler_APICreateTask(tasks, courses, taskSeq, clock, body)
    IN /\ r.seq <= MaxTasks
       /\ tasks' = r.tbl
       /\ taskSeq' = r.seq
       /\ last' = [op |-> "APICreateTask", err |-> r.err]
       /\ ret' = <<[status |-> r.status, body |-> r.body]>>
       /\ UNCHANGED <<courses, courseSeq, clock, inflight>>

APIUpdateTask(id, body) ==
    LET r == Handler_APIUpdateTask(tasks, courses, clock, id, body)
    IN /\ tasks' = r.tbl
       /\ last' = [op |-> "APIUpdateTask", err |-> r.err]
       /\ ret' = <<[status |-> r.status, body |-> <<>>]>>
       /\ UNCHANGED <<courses, taskSeq, courseSeq, clock, inflight>>

APIDeleteTask(id) ==
    LET r == Handler_APIDeleteTask(tasks, id)
    IN /\ tasks' = r.tbl
       /\ last' = [op |-> "APIDeleteTask", err |-> r.err]
       /\ ret' = <<[status |-> r.status, body |-> <<>>]>>
       /\ UNCHANGED <<courses, taskSeq, courseSeq, clock, inflight>>

\* UpdateTask step by step.  Entry: validateTask, which reads the clock.
UpdateTask_Validate(p, task) ==
    LET verr == validateTask(task, clock)
    IN /\ inflight[p].pc = "done"
       /\ inflight' = [inflight EXCEPT ![p] =
                          [op |-> "UpdateTask", task |-> task, err |-> verr,
                           pc |-> IF verr = NoError THEN "lookup" ELSE "done"]]
       /\ UNCHANGED <<tasks, courses, taskSeq, courseSeq, clock, last, ret>>

\* taskRepo.GetByID.  existing.CreatedAt, which the call copies into the
\* task once the course lookup is over, is kept in the task from here on.
UpdateTask_GetByID(p) ==
    LET c == inflight[p]
        existing == TaskRepository_GetByID(tasks, c.task.ID)
    IN /\ c.op = "UpdateTask" /\ c.pc = "lookup"
       /\ inflight' = [inflight EXCEPT ![p] =
                          IF existing = <<>>
                          THEN [c EXCEPT !.pc = "done", !.err = ErrTaskNotFound]
                          ELSE [c EXCEPT !.pc = "stamp",
                                         !.task.CreatedAt = existing[1].CreatedAt]]
       /\ UNCHANGED <<tasks, courses, taskSeq, courseSeq, clock, last, ret>>

\* The course lookup, whose result is discarded, and the reading of the
\* clock for UpdatedAt.
UpdateTask_Stamp(p) ==
    LET c == inflight[p]
    IN /\ c.op = "UpdateTask" /\ c.pc = "stamp"
       /\ inflight' = [inflight EXCEPT ![p] =
                          [c EXCEPT !.pc = "write", !.task.UpdatedAt = clock]]
       /\ UNCHANGED <<tasks, courses, taskSeq, courseSeq, clock, last, ret>>

\* taskRepo.Update: the UPDATE statement executes and the call returns.
UpdateTask_Update(p) ==
    LET c == inflight[p]
        res == TaskRepository_Update(tasks, c.task)
    IN /\ c.op = "UpdateTask" /\ c.pc = "write"
       /\ tasks' = res.tbl
       /\ inflight' = [inflight EXCEPT ![p] = [c EXCEPT !.pc = "done", !.err = res.err]]
       /\ UNCHANGED <<courses, taskSeq, courseSeq, clock, last, ret>>

\* DeleteTask step by step.  Entry: taskRepo.GetByID.
DeleteTask_GetByID(p, id) ==
    LET existing == TaskRepository_GetByID(tasks, id)
    IN /\ inflight[p].pc = "done"
       /\ inflight' = [inflight EXCEPT ![p] =
                          [op |-> "DeleteTask", task |-> [ZeroTask EXCEPT !.ID = id],
                           err |-> IF existing = <<>> THEN ErrTaskNotFound ELSE NoError,
                           pc |-> IF existing = <<>> THEN "done" ELSE "write"]]
       /\ UNCHANGED <<tasks, courses, taskSeq, courseSeq, clock, last, ret>>

\* taskRepo.Delete: the DELETE statement executes and the call returns.
DeleteTask_Delete(p) ==
    LET c == inflight[p]
        res == TaskRepository_Delete(tasks, c.task.ID)
    IN /\ c.op = "DeleteTask" /\ c.pc = "write"
       /\ tasks' = res.tbl
       /\ inflight' = [inflight EXCEPT ![p] = [c EXCEPT !.pc = "done", !.err = res.err]]
       /\ UNCHANGED <<courses, taskSeq, courseSeq, clock, last, ret>>

LegacyCreateTask(form) ==
    LET r == Legacy_Handler_CreateTask(tasks, taskSeq, clock, form)
    IN /\ r.seq <= MaxTasks
       /\ tasks' = r.tbl
       /\ taskSeq' = r.seq
       /\ last' = [op |-> "LegacyCreateTask", err |-> r.err]
       /\ ret' = <<[status |-> r.status, body |-> <<>>]>>
       /\ UNCHANGED <<courses, courseSeq, clock, inflight>>

LegacyUpdateTask(id, form) ==
    LET r == Legacy_Handler_UpdateTask(tasks, clock, id, form)
    IN /\ tasks' = r.tbl
       /\ last' = [op |-> "LegacyUpdateTask", err |-> r.err]
       /\ ret' = <<[status |-> r.status, body |-> <<>>]>>
       /\ UNCHANGED <<courses, taskSeq, courseSeq, clock, inflight>>

LegacyAPICreateTask(body) ==
    LET r == Legacy_Handler_APICreateTask(tasks, taskSeq, clock, body)
    IN /\ r.seq <= MaxTasks
       /\ tasks' = r.tbl
       /\ taskSeq' = r.seq
       /\ last' = [op |-> "LegacyAPICreateTask", err |-> r.err]
       /\ ret' = <<[status |-> r.status, body |-> <<>>]>>
       /\ UNCHANGED <<courses, courseSeq, clock, inflight>>

\* The task service alone.
NextTask ==
    \/ Tick
    \/ \E task \in TaskInputs : CreateTask(task)
    \/ \E task \in TaskUpdates : UpdateTask(task)
    \/ \E id \in TaskIds : GetTask(id)
    \/ \E id \in TaskIds : DeleteTask(id)

SpecTask == Init /\ [][NextTask]_vars

\* Both services.
Next ==
    \/ Tick
    \/ \E task \in CoreInputs : CreateTask(task)
    \/ \E task \in CoreUpdates : UpdateTask(task)
    \/ \E id \in TaskIds : GetTask(id)
    \/ \E id \in TaskIds : DeleteTask(id)
    \/ \E course \in CourseInputs : CreateCourse(course)
    \/ \E course \in CourseUpdates : UpdateCourse(course)
    \/ \E id \in CourseIds : GetCourse(id)
    \/ \E id \in CourseIds : DeleteCourse(id)

Spec == Init /\ [][Next]_vars

\* Tasks that refer to courses, with the clock standing still.  The task
\* requests differ from the typical one in the course reference, which may
\* name any course id or none, and in the priority, which may be invalid.
LinkRequests ==
    {[BaseTask EXCEPT !.ID = i, !.CourseID = c, !.Priority = p] :
        i \in {0} \cup TaskIds, c \in {0} \cup CourseIds, p \in {0, 1}}

LinkInputs == {t \in LinkRequests : t.ID = 0}

LinkUpdates == {t \in LinkRequests : t.ID \in TaskIds}

NextLink ==
    \/ \E task \in LinkInputs : CreateTask(task)
    \/ \E task \in LinkUpdates : UpdateTask(task)
    \/ \E id \in TaskIds : DeleteTask(id)
    \/ \E course \in CourseInputs : CreateCourse(course)
    \/ \E course \in CourseUpdates : UpdateCourse(course)
    \/ \E id \in CourseIds : DeleteCourse(id)

SpecLink == Init /\ [][NextLink]_vars

\* The end-to-end scenario: one course, one task of that course due a day
\* after its creation, updates of its status, its deletion.  A day is longer
\* than the clock runs.
Day == MaxTicks + TicksPerSec

AlgorithmsCourse ==
    [ID |-> 0, Name |-> "Algorithms", Professor |-> "Dr. X",
     CreatedAt |-> ZeroTime, UpdatedAt |-> ZeroTime]

\* The task of the scenario, submitted at time now without a status.
HW1Task(now) ==
    [ID |-> 0, Title |-> "HW1", Description |-> "", DueDate |-> now + Day,
     DueZone |-> 0, Priority |-> 3, Status |-> "", CourseID |-> 1,
     CreatedAt |-> ZeroTime, UpdatedAt |-> ZeroTime]

\* An update request for task id that carries the status completed and
\* nothing else: every other field has the zero value of its type.
OnlyStatus(id) ==
    [ID |-> id, Title |-> "", Description |-> "", DueDate |-> ZeroTime,
     DueZone |-> 0, Priority |-> 0, Status |-> TaskStatusCompleted, CourseID |-> 0,
     CreatedAt |-> ZeroTime, UpdatedAt |-> ZeroTime]

\* An update request for the persisted task id that carries its stored
\* fields and the status completed.
StoredWithStatus(id) ==
    [ScanTask(tasks[id]) EXCEPT !.Status = TaskStatusCompleted]

NextScenario ==
    \/ Tick
    \/ CreateCourse(AlgorithmsCourse)
    \/ CreateTask(HW1Task(clock))
    \/ \E id \in DOMAIN tasks : UpdateTask(OnlyStatus(id))
    \/ \E id \in DOMAIN tasks : UpdateTask(StoredWithStatus(id))
    \/ \E id \in TaskIds : DeleteTask(id)
    \/ \E id \in TaskIds : GetTask(id)

SpecScenario == Init /\ [][NextScenario]_vars

\* Creating, retitling and deleting rows, with the clock standing still; one
\* row more than MaxTasks and MaxCourses may be inserted, so that a row can
\* be created after another was deleted.
IdRequests ==
    {[BaseTask EXCEPT !.ID = i, !.Title = t] : i \in {0} \cup TaskIds, t \in Titles}

NextIds ==
    \/ \E task \in IdRequests : task.ID = 0 /\ CreateTaskWithin(MaxTasks + 1, task)
    \/ \E task \in IdRequests : task.ID # 0 /\ UpdateTask(task)
    \/ \E id \in TaskIds : DeleteTask(id)
    \/ \E course \in CourseInputs : CreateCourseWithin(MaxCourses + 1, course)
    \/ \E course \in CourseUpdates : UpdateCourse(course)
    \/ \E id \in CourseIds : DeleteCourse(id)

SpecIds == Init /\ [][NextIds]_vars

\* Every operation of both services, with the clock standing still and one
\* row more than MaxTasks and MaxCourses, so that an operation on one row
\* runs while another row is persisted.
NextFrame ==
    \/ \E task \in IdRequests : task.ID = 0 /\ CreateTaskWithin(MaxTasks + 1, task)
    \/ \E task \in IdRequests : task.ID # 0 /\ UpdateTask(task)
    \/ \E id \in TaskIds : GetTask(id)
    \/ GetAllTasks
    \/ \E id \in TaskIds : DeleteTask(id)
    \/ \E course \in CourseInputs : CreateCourseWithin(MaxCourses + 1, course)
    \/ \E course \in CourseUpdates : UpdateCourse(course)
    \/ \E id \in CourseIds : GetCourse(id)
    \/ GetAllCourses
    \/ \E id \in CourseIds : DeleteCourse(id)

SpecFrame == Init /\ [][NextFrame]_vars

\* The course service alone.  Every Course value a caller can hand to it,
\* with two names and two professors:
CourseCalls ==
    [ID : {0} \cup CourseIds, Name : {"", "Algorithms", "CS101"},
     Professor : {"Dr. Smith", "Dr. X"},
     CreatedAt : CallerStamps, UpdatedAt : {ZeroTime}]

\* the requests the behaviours are built from name one professor and carry
\* no created_at.
CourseRequests ==
    {c \in CourseCalls : c.Professor = "Dr. Smith" /\ c.CreatedAt = ZeroTime}

NextCourse ==
    \/ Tick
    \/ \E course \in CourseRequests : course.ID = 0 /\ CreateCourse(course)
    \/ \E course \in CourseRequests : course.ID # 0 /\ UpdateCourse(course)
    \/ \E id \in CourseIds : GetCourse(id)
    \/ \E id \in CourseIds : DeleteCourse(id)
    \/ GetAllCourses

SpecCourse == Init /\ [][NextCourse]_vars

\* Listing, with the clock standing still: tasks due at one of three times,
\* given in UTC or in the other zone, and courses with one of two names; one
\* row more than MaxTasks and MaxCourses may be inserted.
ListDues == {ZeroTime, MaxTime + 1, MaxTime + 1 + TicksPerSec}

ListInputs ==
    {[BaseTask EXCEPT !.DueDate = d, !.DueZone = z] : d \in ListDues, z \in Zones}

ListCourses ==
    {[ID |-> 0, Name |-> n, Professor |-> "Dr. X",
      CreatedAt |-> ZeroTime, UpdatedAt |-> ZeroTime] : n \in {"Algorithms", "CS101"}}

NextList ==
    \/ \E task \in ListInputs : CreateTaskWithin(MaxTasks + 1, task)
    \/ \E course \in ListCourses : CreateCourseWithin(MaxCourses + 1, course)
    \/ GetAllTasks
    \/ GetAllCourses

SpecList == Init /\ [][NextList]_vars

\* The REST API of tasks.  A request body gives a title, a description, a
\* due date after the last tick of the clock, a priority and a course id,
\* under the keys of the documented example request or under the names of
\* the fields of models.Task.
APIValues ==
    [Title : {"HW1"}, Description : {"d"}, DueDate : {MaxTime + 1},
     DueZone : {0}, Priority : {4, 6}, CourseID : {0, 1}]

DocumentedBody(v) ==
    [title |-> v.Title, description |-> v.Description,
     due_date |-> [at |-> v.DueDate, zone |-> v.DueZone],
     priority |-> v.Priority, course_id |-> v.CourseID]

FieldNameBody(v) ==
    [Title |-> v.Title, Description |-> v.Description,
     DueDate |-> [at |-> v.DueDate, zone |-> v.DueZone],
     Priority |-> v.Priority, CourseID |-> v.CourseID]

APIBodies ==
    {DocumentedBody(v) : v \in APIValues} \cup {FieldNameBody(v) : v \in APIValues}
       \cup {MalformedBody}

NextAPI ==
    \/ Tick
    \/ \E body \in APIBodies : APICreateTask(body)
    \/ \E id \in TaskIds \cup {OutOfRangeId} : APIGetTask(id)
    \/ \E id \in TaskIds \cup {OutOfRangeId}, body \in APIBodies :
          APIUpdateTask(id, body)
    \/ \E id \in TaskIds \cup {OutOfRangeId} : APIDeleteTask(id)

SpecAPI == Init /\ [][NextAPI]_vars

\* Calls that overlap on one task, the first created.  Two of the update
\* requests pass validation and differ in title, priority and status; the
\* third has a priority off the scale.
RacedId == 1

RaceUpdates ==
    {[BaseTask EXCEPT !.ID = RacedId],
     [BaseTask EXCEPT !.ID = RacedId, !.Title = "HW2", !.Priority = 5,
                      !.Status = TaskStatusCompleted],
     [BaseTask EXCEPT !.ID = RacedId, !.Priority = 6]}

\* Overlapping updates while the clock runs.
NextRace ==
    \/ Tick
    \/ CreateTask(BaseTask)
    \/ \E p \in Callers, task \in RaceUpdates : UpdateTask_Validate(p, task)
    \/ \E p \in Callers : UpdateTask_GetByID(p)
    \/ \E p \in Callers : UpdateTask_Stamp(p)
    \/ \E p \in Callers : UpdateTask_Update(p)

SpecRace == Init /\ [][NextRace]_vars

\* Overlapping updates and deletes, with the clock standing still.
NextRaceDelete ==
    \/ CreateTask(BaseTask)
    \/ \E p \in Callers, task \in RaceUpdates : UpdateTask_Validate(p, task)
    \/ \E p \in Callers : UpdateTask_GetByID(p)
    \/ \E p \in Callers : UpdateTask_Stamp(p)
    \/ \E p \in Callers : UpdateTask_Update(p)
    \/ \E p \in Callers : DeleteTask_GetByID(p, RacedId)
    \/ \E p \in Callers : DeleteTask_Delete(p)

SpecRaceDelete == Init /\ [][NextRaceDelete]_vars

\* The legacy handlers.  The priority field of a form holds a number on or
\* off the scale, nothing, or a word; the JSON API takes any priority.
LegacyForms ==
    [title : {"HW1"}, description : {"d"}, due_date : {""} \cup DOMAIN ParseFormDue,
     priority : {"", "high", "-1", "0", "5", "6"}, status : {"pending", "completed"},
     course_id : {"", "1"}]

NextLegacy ==
    \/ Tick
    \/ \E form \in LegacyForms : LegacyCreateTask(form)
    \/ \E id \in TaskIds \cup {OutOfRangeId}, form \in LegacyForms :
          LegacyUpdateTask(id, form)
    \/ \E body \in {DocumentedBody(v) : v \in {w \in APIValues : w.CourseID = 0}}
                     \cup {MalformedBody} :
          LegacyAPICreateTask(body)

SpecLegacy == Init /\ [][NextLegacy]_vars

TypeOK ==
    /\ DOMAIN tasks \subseteq 1..taskSeq
    /\ DOMAIN courses \subseteq 1..courseSeq
    /\ clock \in StartTime..MaxTime

\* ---------------------------------------------------------------- properties
\* The calls the properties of createTask and updateTask range over: every
\* combination of id, priority, due date and status, with a due date in UTC
\* and the payload fields of the typical request.
TaskCalls ==
    [ID : {0} \cup TaskIds, Title : {BaseTask.Title},
     Description : {BaseTask.Description}, DueDate : DueDates,
     DueZone : {BaseTask.DueZone},
     Priority : Priorities, Status : Statuses, CourseID : {BaseTask.CourseID},
     CreatedAt : {ZeroTime}, UpdatedAt : {ZeroTime}]

CreateCalls == {t \in TaskCalls : t.ID = 0}

\* What CreateTask(task) and UpdateTask(task) do in the current state.
CreateOutcome(task) == TaskService_CreateTask(tasks, courses, taskSeq, clock, task)

UpdateOutcome(task) == TaskService_UpdateTask(tasks, courses, clock, task)

\* C1: createTask of a task whose priority is outside 1..5 (0 and negative
\* values included) fails with InvalidPriority and leaves the persisted tasks
\* exactly as they were.
C1_CreateRejectsPriorityOutOfRange ==
    \A task \in CreateCalls :
        (task.Priority < 1 \/ task.Priority > 5) =>
            LET r == CreateOutcome(task)
            IN r.err = ErrInvalidTaskPriority /\ r.tbl = tasks

\* A createTask has been refused for its priority while a task was persisted.
C1_Witness ==
    /\ last.op = "CreateTask" /\ last.err = ErrInvalidTaskPriority
    /\ DOMAIN tasks # {}

\* C2: after any sequence of createTask, updateTask and deleteTask calls every
\* persisted task has a priority in 1..5.
C2_PersistedPriorityInRange ==
    \A id \in DOMAIN tasks : tasks[id].priority \in 1..5

\* An updateTask has succeeded and left the task with priority 5.
C2_Witness ==
    /\ last.op = "UpdateTask" /\ last.err = NoError
    /\ \E id \in DOMAIN tasks :
          tasks[id].priority = 5 /\ tasks[id].updated_at > tasks[id].created_at

\* C3: createTask of a task with a valid priority and a non-zero due_date
\* strictly before the current time fails with InvalidDueDate and persists
\* nothing.
C3_CreateRejectsPastDueDate ==
    \A task \in CreateCalls :
        (task.Priority \in 1..5 /\ task.DueDate # ZeroTime /\ task.DueDate < clock) =>
            LET r == CreateOutcome(task)
            IN r.err = ErrInvalidDueDate /\ r.tbl = tasks /\ r.seq = taskSeq

\* A createTask has been refused for its due date.
C3_Witness ==
    last.op = "CreateTask" /\ last.err = ErrInvalidDueDate

\* The error createTask (ID 0) or updateTask returns for a call.
CallError(task) ==
    IF task.ID = 0 THEN CreateOutcome(task).err ELSE UpdateOutcome(task).err

\* C4: createTask and updateTask accept a non-zero due_date only when it is
\* strictly after the current time; a non-zero due_date equal to the current
\* time is rejected with InvalidDueDate like one in the past.
C4_DueDateNotAfterNowRejected ==
    \A task \in TaskCalls :
        (task.Priority \in 1..5 /\ task.DueDate # ZeroTime /\ task.DueDate <= clock) =>
            CallError(task) = ErrInvalidDueDate

\* The row a successful createTask or updateTask of a persisted task writes.
WrittenRow(task) ==
    IF task.ID = 0
    THEN LET r == CreateOutcome(task) IN r.tbl[r.seq]
    ELSE UpdateOutcome(task).tbl[task.ID]

\* The call succeeds and writes a row.
Writes(task) ==
    /\ task.ID = 0 \/ task.ID \in DOMAIN tasks
    /\ CallError(task) = NoError

\* C5 as stated: every task persisted by a successful createTask or
\* updateTask has a due_date in the future at the moment of the call.
C5_PersistedDueDateInFuture ==
    \A task \in TaskCalls :
        Writes(task) => Parse(WrittenRow(task).due_date) > clock

\* C5 amended: every task persisted by a successful createTask or updateTask
\* was submitted with a due_date that is zero or not earlier than the current
\* time, and its persisted due_date is the submitted one cut to whole seconds.
C5_PersistedDueDateZeroOrNotPast ==
    \A task \in TaskCalls :
        Writes(task) =>
            /\ task.DueDate = ZeroTime \/ task.DueDate >= clock
            /\ WrittenRow(task).due_date = task.DueDate \div TicksPerSec

\* An updateTask has succeeded and left the task with a due date that is not
\* zero and not in the past.
C5_Witness ==
    /\ last.op = "UpdateTask" /\ last.err = NoError
    /\ \E id \in DOMAIN tasks :
          /\ tasks[id].due_date # 0 /\ Parse(tasks[id].due_date) >= clock
          /\ tasks[id].updated_at > tasks[id].created_at

\* C6: a successful createTask called with an empty status persists the task
\* with status pending; called with a non-empty status it persists that
\* status unchanged.
C6_CreateDefaultsEmptyStatus ==
    \A task \in CreateCalls :
        CallError(task) = NoError =>
            WrittenRow(task).status =
                IF task.Status = "" THEN "pending" ELSE task.Status

\* A createTask carrying the status completed has succeeded.
C6_Witness ==
    /\ last.op = "CreateTask" /\ last.err = NoError
    /\ \E id \in DOMAIN tasks : tasks[id].status = "completed"

\* C7: in every reachable state the status of every persisted task is one of
\* pending, in_progress, completed.
C7_PersistedStatusInEnumeration ==
    \A id \in DOMAIN tasks :
        tasks[id].status \in {"pending", "in_progress", "completed"}

\* An updateTask of a persisted task has been refused by the table's CHECK.
C7_Witness ==
    /\ last.op = "UpdateTask" /\ last.err = ErrConstraint
    /\ DOMAIN tasks # {}

\* The updateTask request that carries the stored fields of task id, a new
\* title, and created_at as the caller likes.
RetitleRequest(id, title, stamp) ==
    [ScanTask(tasks[id]) EXCEPT !.Title = title, !.CreatedAt = stamp,
                                !.UpdatedAt = ZeroTime]

\* C8 as stated: for any persisted task, at any later time, updateTask with
\* the stored due_date and priority and a new title succeeds, leaves
\* created_at as stored and sets updated_at to a value >= the previous one.
C8_RetitleAlwaysSucceeds ==
    \A id \in DOMAIN tasks : \A title \in Titles \ {tasks[id].title} :
        \A stamp \in CallerStamps :
            LET r == UpdateOutcome(RetitleRequest(id, title, stamp))
            IN /\ r.err = NoError
               /\ r.tbl[id].created_at = tasks[id].created_at
               /\ r.tbl[id].updated_at >= tasks[id].updated_at

\* C8 amended: the call succeeds, with created_at as stored and updated_at
\* >= the previous one, when the stored due_date is zero or not earlier than
\* the current time; otherwise it fails with InvalidDueDate and changes
\* nothing.
C8_RetitleSucceedsUnlessDuePassed ==
    \A id \in DOMAIN tasks : \A title \in Titles \ {tasks[id].title} :
        \A stamp \in CallerStamps :
            LET r == UpdateOutcome(RetitleRequest(id, title, stamp))
                due == tasks[id].due_date * TicksPerSec
            IN IF due = 0 \/ due >= clock
               THEN /\ r.err = NoError
                    /\ r.tbl[id].title = title
                    /\ r.tbl[id].created_at = tasks[id].created_at
                    /\ r.tbl[id].updated_at >= tasks[id].updated_at
               ELSE r.err = ErrInvalidDueDate /\ r.tbl = tasks

\* An updateTask has succeeded at a later second than the creation and the
\* task carries the other title.
C8_Witness ==
    /\ last.op = "UpdateTask" /\ last.err = NoError
    /\ \E id \in DOMAIN tasks :
          /\ tasks[id].title # BaseTask.Title
          /\ tasks[id].updated_at > tasks[id].created_at

Result(r) == [err |-> r.err, tbl |-> r.tbl]

\* The ids no persisted task or course has.
MissingTaskIds == ({0} \cup TaskIds) \ DOMAIN tasks

MissingCourseIds == ({0} \cup CourseIds) \ DOMAIN courses

\* An updateTask request for id with the given priority and due date.
UpdateCall(id, priority, due) ==
    [BaseTask EXCEPT !.ID = id, !.Priority = priority, !.DueDate = due]

\* C10 as stated: getTask, deleteTask and updateTask on an id that is not
\* persisted fail with TaskNotFound, getCourse, deleteCourse and updateCourse
\* with CourseNotFound, and the persisted rows are unchanged.
C10_MissingIdIsNotFound ==
    /\ \A id \in MissingTaskIds :
          /\ TaskService_GetTask(tasks, id).err = ErrTaskNotFound
          /\ Result(TaskService_DeleteTask(tasks, id)) = [err |-> ErrTaskNotFound, tbl |-> tasks]
          /\ \A p \in Priorities, d \in DueDates :
                Result(UpdateOutcome(UpdateCall(id, p, d))) =
                    [err |-> ErrTaskNotFound, tbl |-> tasks]
    /\ \A id \in MissingCourseIds :
          /\ CourseService_GetCourse(courses, id).err = ErrCourseNotFound
          /\ Result(CourseService_DeleteCourse(courses, id)) =
                [err |-> ErrCourseNotFound, tbl |-> courses]
          /\ \A course \in AllCourseInputs :
                course.ID = id =>
                    Result(CourseService_UpdateCourse(courses, clock, course)) =
                        [err |-> ErrCourseNotFound, tbl |-> courses]

\* C10 amended: get and delete on an id that is not persisted fail with the
\* not-found error; update on such an id fails with the not-found error when
\* the request passes validation and with the validation error otherwise; the
\* persisted rows are unchanged in every case.
C10_MissingIdIsNotFoundAfterValidation ==
    /\ \A id \in MissingTaskIds :
          /\ TaskService_GetTask(tasks, id).err = ErrTaskNotFound
          /\ Result(TaskService_DeleteTask(tasks, id)) = [err |-> ErrTaskNotFound, tbl |-> tasks]
          /\ \A p \in Priorities, d \in DueDates :
                Result(UpdateOutcome(UpdateCall(id, p, d))) =
                    [err |-> IF p < 1 \/ p > 5 THEN ErrInvalidTaskPriority
                             ELSE IF d # ZeroTime /\ d < clock THEN ErrInvalidDueDate
                             ELSE ErrTaskNotFound,
                     tbl |-> tasks]
    /\ \A id \in MissingCourseIds :
          /\ CourseService_GetCourse(courses, id).err = ErrCourseNotFound
          /\ Result(CourseService_DeleteCourse(courses, id)) =
                [err |-> ErrCourseNotFound, tbl |-> courses]
          /\ \A course \in AllCourseInputs :
                course.ID = id =>
                    Result(CourseService_UpdateCourse(courses, clock, course)) =
                        [err |-> IF course.Name = "" THEN ErrEmptyName
                                 ELSE ErrCourseNotFound,
                         tbl |-> courses]

\* An updateTask has failed with TaskNotFound after the only task created
\* was deleted, while a course is persisted.
C10_Witness ==
    /\ last.op = "UpdateTask" /\ last.err = ErrTaskNotFound
    /\ taskSeq > 0 /\ DOMAIN tasks = {}
    /\ DOMAIN courses # {}

\* The storage calls that insert, update or delete.
MutatingCalls ==
    {"tasks.Create", "tasks.Update", "tasks.Delete",
     "courses.Create", "courses.Update", "courses.Delete"}

\* The validation errors and the not-found errors of the services.
RefusalErrors ==
    {ErrInvalidTaskPriority, ErrInvalidDueDate, ErrEmptyName,
     ErrTaskNotFound, ErrCourseNotFound}

\* The calls the properties of tasks that refer to courses range over: every
\* combination of id, priority, due date and course reference.
LinkCalls ==
    [ID : {0} \cup TaskIds, Title : {BaseTask.Title},
     Description : {BaseTask.Description}, DueDate : DueDates,
     DueZone : {BaseTask.DueZone},
     Priority : Priorities, Status : {BaseTask.Status},
     CourseID : {0} \cup CourseIds,
     CreatedAt : {ZeroTime}, UpdatedAt : {ZeroTime}]

\* The outcome of createTask (ID 0) or updateTask for a call.
TaskOutcome(task) ==
    IF task.ID = 0 THEN CreateOutcome(task) ELSE UpdateOutcome(task)

\* The outcome of createCourse (ID 0) or updateCourse for a call.
CourseOutcome(course) ==
    IF course.ID = 0
    THEN CourseService_CreateCourse(courses, courseSeq, clock, course)
    ELSE CourseService_UpdateCourse(courses, clock, course)

\* An operation that issued the storage calls c, returned err and left the
\* table as after (before: as it was) made its checks first: a mutating call
\* is the last call it issued, and a refused operation issued none and left
\* the table alone.
ChecksFirst(c, err, before, after) ==
    /\ \A i \in 1..Len(c) : c[i] \in MutatingCalls => i = Len(c)
    /\ err \in RefusalErrors =>
          /\ \A i \in 1..Len(c) : c[i] \notin MutatingCalls
          /\ after = before

\* C11: the service performs every validation and existence check of an
\* operation before its first mutating storage call, so an operation that
\* returns a validation error or a not-found error has issued no insert,
\* update or delete.
C11_ChecksBeforeFirstWrite ==
    /\ \A task \in LinkCalls :
          LET r == TaskOutcome(task) IN ChecksFirst(r.calls, r.err, tasks, r.tbl)
    /\ \A id \in {0} \cup TaskIds :
          LET r == TaskService_DeleteTask(tasks, id)
          IN ChecksFirst(r.calls, r.err, tasks, r.tbl)
    /\ \A course \in AllCourseInputs :
          LET r == CourseOutcome(course)
          IN ChecksFirst(r.calls, r.err, courses, r.tbl)
    /\ \A id \in {0} \cup CourseIds :
          LET r == CourseService_DeleteCourse(courses, id)
          IN ChecksFirst(r.calls, r.err, courses, r.tbl)

\* An updateTask naming a persisted course has been refused with
\* TaskNotFound while another task is persisted.
C11_Witness ==
    /\ last.op = "UpdateTask" /\ last.err = ErrTaskNotFound
    /\ DOMAIN tasks # {} /\ DOMAIN courses # {}

\* C12: createTask and updateTask with a non-zero course_id that refers to
\* no persisted course return an error and persist nothing.
C12_DanglingCourseRefRefused ==
    \A task \in LinkCalls :
        (task.CourseID # 0 /\ task.CourseID \notin DOMAIN courses) =>
            LET r == TaskOutcome(task) IN r.err # NoError /\ r.tbl = tasks

\* C13: the storage gateway's update and delete operations return an error
\* when no record with the given id exists, for both tasks and courses.
C13_StorageReportsNotFound ==
    /\ \A id \in MissingTaskIds :
          /\ \A task \in LinkCalls :
                task.ID = id => TaskRepository_Update(tasks, task).err # NoError
          /\ TaskRepository_Delete(tasks, id).err # NoError
    /\ \A id \in MissingCourseIds :
          /\ \A course \in AllCourseInputs :
                course.ID = id =>
                    CourseRepository_Update(courses, course).err # NoError
          /\ CourseRepository_Delete(courses, id).err # NoError

\* C14: getAllTasks returns the persisted tasks in ascending order of their
\* due_date as points in time, and getAllCourses returns the persisted
\* courses in ascending order of name.
C14_ListsAscending ==
    /\ last.op = "GetAllTasks" =>
          /\ {ret[i].ID : i \in DOMAIN ret} = DOMAIN tasks
          /\ \A i, j \in DOMAIN ret : i < j => ret[i].DueDate <= ret[j].DueDate
    /\ last.op = "GetAllCourses" =>
          /\ {ret[i].ID : i \in DOMAIN ret} = DOMAIN courses
          /\ \A i, j \in DOMAIN ret :
                i < j => NameRank(ret[i].Name) <= NameRank(ret[j].Name)

\* C15: creating a course with a non-empty name and then reading it back by
\* its assigned id returns the same name and professor, with created_at and
\* updated_at non-zero and equal to each other.
C15_CourseRoundTrip ==
    \A course \in CourseCalls :
        (course.ID = 0 /\ course.Name # "") =>
            LET c == CourseService_CreateCourse(courses, courseSeq, clock, course)
                g == CourseService_GetCourse(c.tbl, c.seq)
            IN /\ c.err = NoError /\ g.err = NoError
               /\ g.ret[1].ID = c.seq
               /\ g.ret[1].Name = course.Name
               /\ g.ret[1].Professor = course.Professor
               /\ g.ret[1].CreatedAt # ZeroTime
               /\ g.ret[1].CreatedAt = g.ret[1].UpdatedAt

\* The course CS101 of Dr. Smith has been created and read back unchanged.
C15_Witness ==
    /\ last.op = "GetCourse" /\ last.err = NoError
    /\ ret[1].Name = "CS101" /\ ret[1].Professor = "Dr. Smith"
    /\ ret[1].CreatedAt = ret[1].UpdatedAt /\ ret[1].CreatedAt # ZeroTime

\* The persisted courses some persisted task refers to.
ReferencedCourses ==
    {id \in DOMAIN courses : \E t \in DOMAIN tasks : tasks[t].course_id = id}

\* C16: deleteCourse on a course that is referenced by a persisted task
\* succeeds without error, removes only the course, and leaves every
\* referencing task persisted with its course_id unchanged.
C16_DeleteCourseLeavesTasks ==
    [][/\ \A id \in ReferencedCourses :
             LET r == CourseService_DeleteCourse(courses, id)
             IN /\ r.err = NoError
                /\ r.tbl = [c \in DOMAIN courses \ {id} |-> courses[c]]
       /\ last'.op = "DeleteCourse" => tasks' = tasks]_vars

\* A course has been deleted and a persisted task still refers to it.
C16_Witness ==
    /\ last.op = "DeleteCourse" /\ last.err = NoError
    /\ \E t \in DOMAIN tasks :
          /\ tasks[t].course_id \in 1..courseSeq
          /\ tasks[t].course_id \notin DOMAIN courses

\* The steps of the end-to-end scenario other than the update.  On an empty
\* store createCourse of the course gets id 1; with that course persisted,
\* createTask of the task succeeds with status pending; deleteTask of a
\* persisted task succeeds and a getTask after it fails with TaskNotFound.
ScenarioCreateAndDelete ==
    /\ courseSeq = 0 =>
          LET c == CourseService_CreateCourse(courses, courseSeq, clock, AlgorithmsCourse)
          IN c.err = NoError /\ c.seq = 1 /\ c.tbl[1].name = "Algorithms"
    /\ 1 \in DOMAIN courses =>
          LET t == CreateOutcome(HW1Task(clock))
          IN /\ t.err = NoError
             /\ t.tbl[t.seq].status = "pending"
             /\ t.tbl[t.seq].priority = 3 /\ t.tbl[t.seq].course_id = 1
    /\ \A id \in DOMAIN tasks :
          LET d == TaskService_DeleteTask(tasks, id)
          IN d.err = NoError /\ TaskService_GetTask(d.tbl, id).err = ErrTaskNotFound

\* C17 as stated: in the end-to-end scenario the updateTask that carries only
\* the status completed succeeds, leaves created_at unchanged and advances
\* updated_at; the other steps go as ScenarioCreateAndDelete says.
C17_ScenarioWithStatusOnlyUpdate ==
    /\ ScenarioCreateAndDelete
    /\ \A id \in DOMAIN tasks :
          1 \in DOMAIN courses =>
          LET r == UpdateOutcome(OnlyStatus(id))
          IN /\ r.err = NoError
             /\ r.tbl[id].status = "completed"
             /\ r.tbl[id].created_at = tasks[id].created_at
             /\ r.tbl[id].updated_at > tasks[id].updated_at

\* C17 amended: the updateTask that carries the stored title, priority,
\* due_date and course_id together with the status completed succeeds, leaves
\* created_at unchanged and sets updated_at to the time of the call, which is
\* not earlier than the previous updated_at and later when the call is made in
\* a later second; the other steps go as ScenarioCreateAndDelete says.
C17_ScenarioWithFullUpdate ==
    /\ ScenarioCreateAndDelete
    /\ \A id \in DOMAIN tasks :
          1 \in DOMAIN courses =>
          LET r == UpdateOutcome(StoredWithStatus(id))
          IN /\ r.err = NoError
             /\ r.tbl[id].status = "completed"
             /\ r.tbl[id].created_at = tasks[id].created_at
             /\ r.tbl[id].updated_at = clock \div TicksPerSec
             /\ r.tbl[id].updated_at >= tasks[id].updated_at

\* The scenario after its update: the task of course Algorithms is completed
\* and was updated in a later second than it was created.
C17_Witness ==
    /\ last.op = "UpdateTask" /\ last.err = NoError
    /\ 1 \in DOMAIN courses /\ courses[1].name = "Algorithms"
    /\ 1 \in DOMAIN tasks
    /\ tasks[1].status = "completed" /\ tasks[1].priority = 3
    /\ tasks[1].course_id = 1
    /\ tasks[1].updated_at > tasks[1].created_at

\* C18: in every reachable state every persisted task and course has
\* updated_at >= created_at, and immediately after a successful create the
\* two are equal.
C18_UpdatedAtNotBeforeCreatedAt ==
    /\ \A id \in DOMAIN tasks : tasks[id].updated_at >= tasks[id].created_at
    /\ \A id \in DOMAIN courses : courses[id].updated_at >= courses[id].created_at
    /\ (last.op = "CreateTask" /\ last.err = NoError) =>
          tasks[taskSeq].updated_at = tasks[taskSeq].created_at
    /\ (last.op = "CreateCourse" /\ last.err = NoError) =>
          courses[courseSeq].updated_at = courses[courseSeq].created_at

\* A task has just been created, next to a course that was updated in a
\* later second than it was created.
C18_Witness ==
    /\ last.op = "CreateTask" /\ last.err = NoError
    /\ tasks[taskSeq].updated_at = tasks[taskSeq].created_at
    /\ \E id \in DOMAIN courses : courses[id].updated_at > courses[id].created_at

\* In a step from table tbl with highest assigned id seq to table tbl2 with
\* highest assigned id seq2: the ids in use are among the assigned ones, every
\* row carries the id it is stored under, and a row that appears gets an id
\* that was never assigned before.
IdsKept(tbl, seq, tbl2, seq2) ==
    /\ seq2 >= seq
    /\ DOMAIN tbl2 \subseteq 1..seq2
    /\ \A id \in DOMAIN tbl2 : tbl2[id].id = id
    /\ \A id \in DOMAIN tbl2 \ DOMAIN tbl : id > seq

\* C19: ids are assigned by storage and are unique: no two persisted entities
\* of the same type share an id, no operation changes the id of a persisted
\* entity, and an id once assigned is never assigned again to a later-created
\* entity even after the original was deleted.
C19_IdsUniqueAndNeverReused ==
    [][/\ IdsKept(tasks, taskSeq, tasks', taskSeq')
       /\ IdsKept(courses, courseSeq, courses', courseSeq')]_vars

\* A task has been created after the first task was deleted, and it did not
\* get the id of the first.
C19_Witness ==
    /\ last.op = "CreateTask" /\ last.err = NoError
    /\ 1 \notin DOMAIN tasks
    /\ taskSeq > 1 /\ taskSeq \in DOMAIN tasks

\* C20: createCourse and updateCourse with an empty name fail with EmptyName
\* and write nothing (no mutating storage call, the table as it was), so every
\* persisted course has a non-empty name.
C20_EmptyNameRefused ==
    /\ \A course \in CourseCalls :
          course.Name = "" =>
             LET r == CourseOutcome(course)
             IN /\ r.err = ErrEmptyName
                /\ r.tbl = courses
                /\ \A i \in 1..Len(r.calls) : r.calls[i] \notin MutatingCalls
    /\ \A id \in DOMAIN courses : courses[id].name # ""

\* An update of a persisted course to the empty name has just been refused.
C20_Witness ==
    /\ last.op = "UpdateCourse" /\ last.err = ErrEmptyName
    /\ DOMAIN courses # {}

\* C21: GET /api/tasks/{id} for an id with no persisted task responds with
\* HTTP 404, not with the 500 used for other failures.
C21_MissingTaskGives404 ==
    \A id \in TaskIds :
        id \notin DOMAIN tasks =>
            Handler_APIGetTask(tasks, id).status = StatusNotFound

\* C22: POST /api/tasks with a JSON body using the documented keys title,
\* description, due_date, priority and course_id creates a task whose title,
\* description, due date, priority and course id equal the values given in
\* the body.
C22_DocumentedBodyIsStored ==
    \A v \in APIValues :
        LET r == Handler_APICreateTask(tasks, courses, taskSeq, clock, DocumentedBody(v))
            made == ScanTask(r.tbl[r.seq])
        IN r.status = StatusCreated =>
              /\ made.Title = v.Title
              /\ made.Description = v.Description
              /\ made.DueDate = v.DueDate
              /\ made.Priority = v.Priority
              /\ made.CourseID = v.CourseID

\* The task of a call passes field validation now and has a status of the
\* enumeration.
ValidData(task) ==
    /\ validateTask(task, clock) = NoError
    /\ task.Status \in {TaskStatusPending, TaskStatusInProgress, TaskStatusCompleted}

\* The mutable columns of a row, and what an UPDATE statement for task
\* writes to them.
MutableColumns(row) ==
    [title |-> row.title, description |-> row.description,
     due_date |-> row.due_date, due_zone |-> row.due_zone,
     priority |-> row.priority, status |-> row.status,
     course_id |-> row.course_id, updated_at |-> row.updated_at]

WrittenBy(task) ==
    [title |-> task.Title, description |-> task.Description,
     due_date |-> FormatIn(task.DueDate, task.DueZone), due_zone |-> task.DueZone,
     priority |-> task.Priority, status |-> task.Status,
     course_id |-> task.CourseID, updated_at |-> Format(task.UpdatedAt)]

\* In this step the statement of caller p's call of op executes.
Executes(p, op) ==
    inflight[p].op = op /\ inflight[p].pc = "write" /\ inflight'[p].pc = "done"

\* C23: when two updateTask calls with valid data run concurrently on the
\* same persisted task, both return success, and the persisted record
\* carries all mutable fields (title, description, due_date, priority,
\* status, course_id, updated_at) of the call whose update statement
\* executed last, with no mixing of fields from the two calls: a call with
\* valid data is not refused, the execution of its statement makes every
\* mutable column what that call wrote and returns success, and no other
\* step of an updateTask call changes a row.
C23_LastWriterWins ==
    [][/\ \A p \in Callers :
             LET c == inflight[p]
                 d == inflight'[p]
             IN (c.op = "UpdateTask" /\ ValidData(c.task) /\ c.task.ID \in DOMAIN tasks) =>
                   /\ (c.pc = "lookup" /\ d.pc # "lookup") => d.pc = "stamp"
                   /\ Executes(p, "UpdateTask") =>
                         /\ d.err = NoError
                         /\ c.task.ID \in DOMAIN tasks'
                         /\ MutableColumns(tasks'[c.task.ID]) = WrittenBy(c.task)
                         /\ tasks'[c.task.ID].created_at = tasks[c.task.ID].created_at
       /\ \A p \in Callers :
             (inflight'[p].op = "UpdateTask" /\ ValidData(inflight'[p].task)
                 /\ inflight[p].pc = "done" /\ inflight'[p] # inflight[p]) =>
                   inflight'[p].pc = "lookup"
       /\ (\A p \in Callers : ~Executes(p, "UpdateTask")) =>
             \A id \in DOMAIN tasks : id \in DOMAIN tasks' /\ tasks'[id] = tasks[id]]_vars

\* Two calls with different titles have both returned success, and the row
\* has the title of the call that read the clock first: its statement was
\* the last to execute.
C23_Witness ==
    \E p, q \in Callers :
        /\ inflight[p].op = "UpdateTask" /\ inflight[q].op = "UpdateTask"
        /\ inflight[p].pc = "done" /\ inflight[q].pc = "done"
        /\ inflight[p].err = NoError /\ inflight[q].err = NoError
        /\ inflight[p].task.Title # inflight[q].task.Title
        /\ inflight[p].task.UpdatedAt < inflight[q].task.UpdatedAt
        /\ RacedId \in DOMAIN tasks
        /\ tasks[RacedId].title = inflight[p].task.Title

\* The due date of task has passed.
DuePassed(task) == ~IsZero(task.DueDate) /\ Before(task.DueDate, clock)

\* C24: updateTask applies field validation before the existence check, and
\* checks priority before due date: on an id that is not persisted with an
\* out-of-range priority it fails with InvalidPriority rather than
\* TaskNotFound, without a storage call, and a task with both an
\* out-of-range priority and a past due date fails with InvalidPriority.
C24_UpdateValidatesFirstPriorityFirst ==
    \A task \in TaskCalls :
        (task.ID # 0 /\ task.Priority \notin MinPriority..MaxPriority) =>
            LET r == UpdateOutcome(task)
            IN /\ r.err = ErrInvalidTaskPriority
               /\ r.calls = <<>>
               /\ r.tbl = tasks

\* An update with a priority off the scale has just been refused while no
\* task is persisted, and the due date of some such request has passed.
C24_Witness ==
    /\ last.op = "UpdateTask" /\ last.err = ErrInvalidTaskPriority
    /\ DOMAIN tasks = {}
    /\ \E task \in TaskCalls :
          task.ID # 0 /\ task.Priority \notin MinPriority..MaxPriority /\ DuePassed(task)

\* The persisted tasks, as read back, whose non-zero due date has passed.
Overdue ==
    {ScanTask(tasks[id]) : id \in {i \in DOMAIN tasks : DuePassed(ScanTask(tasks[i]))}}

\* The calls of updateTask that resubmit the due date of the stored task.
Resubmitting(stored) ==
    {task \in TaskCalls : task.ID = stored.ID /\ task.DueDate = stored.DueDate}

\* C25 as stated: once the current time has passed a persisted task's
\* non-zero due_date, every updateTask call that resubmits that stored
\* due_date fails with InvalidDueDate and changes nothing, whatever the other
\* fields are; such a task can only be modified by also moving its due_date
\* to the future or to zero.
C25_OverdueUpdateFailsWithInvalidDueDate ==
    \A stored \in Overdue :
        /\ \A task \in Resubmitting(stored) :
              UpdateOutcome(task).err = ErrInvalidDueDate /\ UpdateOutcome(task).tbl = tasks
        /\ \A task \in TaskCalls :
              (task.ID = stored.ID /\ UpdateOutcome(task).tbl # tasks) =>
                 IsZero(task.DueDate) \/ Before(clock, task.DueDate)

\* C25, amended: such a call fails and changes nothing, with InvalidDueDate
\* when its priority is on the scale and with InvalidPriority when it is
\* not; a call that modifies the task carries a due date that is zero or not
\* earlier than the time of the call.
C25_OverdueUpdateFails ==
    \A stored \in Overdue :
        /\ \A task \in Resubmitting(stored) :
              /\ UpdateOutcome(task).err =
                    IF task.Priority \notin MinPriority..MaxPriority THEN ErrInvalidTaskPriority
                    ELSE ErrInvalidDueDate
              /\ UpdateOutcome(task).tbl = tasks
        /\ \A task \in TaskCalls :
              (task.ID = stored.ID /\ UpdateOutcome(task).tbl # tasks) =>
                 IsZero(task.DueDate) \/ ~Before(task.DueDate, clock)

\* An update that resubmitted the due date of the task, which has passed,
\* has just been refused with InvalidDueDate.
C25_Witness ==
    /\ last.op = "UpdateTask" /\ last.err = ErrInvalidDueDate
    /\ Overdue # {}
    /\ \A stored \in Overdue : Resubmitting(stored) # {}

\* C26: under any interleaving of concurrent updateTask calls on the same
\* task, the persisted updated_at of that task never decreases from one state
\* to the next.
C26_UpdatedAtNeverDecreases ==
    [][\A id \in DOMAIN tasks :
          id \in DOMAIN tasks' => tasks'[id].updated_at >= tasks[id].updated_at]_vars

\* C27: under any interleaving of concurrent deleteTask calls for the same
\* persisted id, exactly one call returns success and every other call
\* returns TaskNotFound.  An id is never assigned twice, so of all the calls
\* for one id at most one may return success.
C27_OneDeleteSucceeds ==
    \A p, q \in Callers :
        (/\ p # q
         /\ inflight[p].op = "DeleteTask" /\ inflight[q].op = "DeleteTask"
         /\ inflight[p].pc = "done" /\ inflight[q].pc = "done"
         /\ inflight[p].task.ID = inflight[q].task.ID) =>
            \/ inflight[p].err = ErrTaskNotFound
            \/ inflight[q].err = ErrTaskNotFound

\* C28: under any interleaving of updateTask and deleteTask on the same id,
\* a task whose delete statement has executed is never persisted again (a
\* late update cannot resurrect it), and an updateTask that returns success
\* has actually written its values to a persisted task.
C28_NoResurrectionNoLostUpdate ==
    [][/\ \A id \in 1..taskSeq : id \notin DOMAIN tasks => id \notin DOMAIN tasks'
       /\ \A p \in Callers :
             (Executes(p, "UpdateTask") /\ inflight'[p].err = NoError) =>
                /\ inflight[p].task.ID \in DOMAIN tasks'
                /\ MutableColumns(tasks'[inflight[p].task.ID]) = WrittenBy(inflight[p].task)]_vars

\* Tables tbl and tbl2 hold the same rows under every id but id.
SameExcept(tbl, tbl2, id) ==
    /\ DOMAIN tbl \ {id} = DOMAIN tbl2 \ {id}
    /\ \A j \in DOMAIN tbl \ {id} : tbl2[j] = tbl[j]

\* C29: each operation touches only its target: updateTask and deleteTask on
\* id i leave every task with another id and every course unchanged,
\* createTask leaves all existing tasks and all courses unchanged, course
\* operations never change any task record, and the read operations
\* (getTask, getAllTasks, getCourse, getAllCourses) change nothing.
C29_OnlyTargetTouched ==
    [][/\ \A task \in IdRequests :
             task.ID # 0 => SameExcept(tasks, UpdateOutcome(task).tbl, task.ID)
       /\ \A id \in TaskIds :
             SameExcept(tasks, TaskService_DeleteTask(tasks, id).tbl, id)
       /\ \A task \in IdRequests :
             task.ID = 0 =>
                \A j \in DOMAIN tasks :
                    /\ j \in DOMAIN CreateOutcome(task).tbl
                    /\ CreateOutcome(task).tbl[j] = tasks[j]
       /\ last'.op \in {"CreateTask", "UpdateTask", "DeleteTask"} =>
             /\ courses' = courses /\ courseSeq' = courseSeq
             /\ \E id \in TaskIds : SameExcept(tasks, tasks', id)
       /\ last'.op = "CreateTask" =>
             \A j \in DOMAIN tasks : j \in DOMAIN tasks' /\ tasks'[j] = tasks[j]
       /\ last'.op \in {"CreateCourse", "UpdateCourse", "DeleteCourse"} =>
             /\ tasks' = tasks /\ taskSeq' = taskSeq
             /\ \E id \in CourseIds : SameExcept(courses, courses', id)
       /\ last'.op \in {"GetTask", "GetAllTasks", "GetCourse", "GetAllCourses"} =>
             /\ tasks' = tasks /\ taskSeq' = taskSeq
             /\ courses' = courses /\ courseSeq' = courseSeq]_vars

\* One of two persisted tasks has just been deleted while a course is
\* persisted: the other task and the course are still there.
C29_Witness ==
    /\ last.op = "DeleteTask" /\ last.err = NoError
    /\ taskSeq = 2 /\ Cardinality(DOMAIN tasks) = 1
    /\ DOMAIN courses # {}

\* C30: in the legacy (flat) implementation, the web-form create and update
\* handlers replace a priority that is unparseable or outside 1..5 by 3, so
\* every task written through the legacy web form has a priority in 1..5.
C30_LegacyFormPriorityOnScale ==
    /\ \A form \in LegacyForms :
          LET r == Legacy_Handler_CreateTask(tasks, taskSeq, clock, form)
          IN r.status = StatusSeeOther =>
                /\ r.tbl[r.seq].priority =
                      IF form.priority \in DOMAIN Atoi /\ Atoi[form.priority] \in 1..5
                      THEN Atoi[form.priority] ELSE 3
                /\ r.tbl[r.seq].priority \in 1..5
    /\ \A form \in LegacyForms, id \in DOMAIN tasks :
          LET r == Legacy_Handler_UpdateTask(tasks, clock, id, form)
          IN r.status = StatusSeeOther =>
                /\ r.tbl[id].priority =
                      IF form.priority \in DOMAIN Atoi /\ Atoi[form.priority] \in 1..5
                      THEN Atoi[form.priority] ELSE 3
                /\ r.tbl[id].priority \in 1..5
    /\ (last.op \in {"LegacyCreateTask", "LegacyUpdateTask"}
           /\ ret[1].status = StatusSeeOther) =>
          \E id \in DOMAIN tasks : tasks[id].priority \in 1..5

\* The form handler for updates has just written a task with priority 3,
\* which no form field and no request body spells out.
C30_Witness ==
    /\ last.op = "LegacyUpdateTask" /\ ret[1].status = StatusSeeOther
    /\ \E id \in DOMAIN tasks : tasks[id].priority = 3 /\ tasks[id].status = "completed"

====
